---- MODULE Spec2Model ----
(***************************************************************************)
(* The Dataset / FeatureSet / Task reconciliation layer of                 *)
(* symbolic_features/data.py: Task.load_csv, Dataset.parse,                *)
(* FeatureSet.parse, Task.intersect, ConcatTask.load_csv, load_task_csvs,  *)
(* load_tasks and the EWLD label extractor.                                *)
(*                                                                         *)
(* A pandas table is a sequence of rows; every row carries its index label *)
(* (idx, the 0-based position of the row in the CSV it was read from),     *)
(* because pandas selects and joins by that label.  The feature values of  *)
(* a row are modelled by the file they were extracted from (field "of").   *)
(***************************************************************************)
EXTENDS Integers, Sequences, FiniteSets, TLC

\* ------------------------------------------------------------------ bounds
\* Greatest number of rows of a CSV file.
MaxRows == 2
\* The rows of a feature table and of the genre table given to ewld_label.
MaxEwldRows == 2
\* Greatest number of rows of a table given to Dataset.parse directly.
MaxParseRows == 3

\* ------------------------------------------------------- generic helpers
Range(s) == {s[i] : i \in 1..Len(s)}

\* All sequences over S of length <= n with no repeated element.
NoDupSeqs(S, n) ==
  UNION {{s \in [1..k -> S] : \A i, j \in 1..k : i # j => s[i] # s[j]} : k \in 0..n}

RECURSIVE Concat(_)
\* The concatenation of a sequence of sequences.
Concat(ss) == IF ss = <<>> THEN <<>> ELSE Head(ss) \o Concat(Tail(ss))

\* -------------------------------------------------------- the file corpus
\* The score files of the corpus on disk, by their path below the dataset
\* root: "a" = Josquin/XML/a.mid, "b" = Josquin/XML/b.mid,
\* "c" = La Rue/XML/c.mid, "z" = Josquin/PDF/z.mid.
Names == {"a", "b", "c", "z"}

\* One more score of Josquin, "d" = Josquin/XML/d.mid, for the CSVs load_tasks
\* reads.
LoadNames == {"a", "b", "d"}

\* Paths the label extractor of JLR, asap or quartets does not match:
\* "u" = u.mid right below the dataset root (no directory to capture),
\* "v" = Jo-squin/XML/v.mid (a hyphen in the directory name).
Unmatched == {"u", "v"}

\* The score files of the other datasets, below their root:
\* "s1" = Bach/Fugue/xml_score.mid, "s2" = Liszt/Sonata/xml_score.musicxml,
\* "s3" = Bach/Fugue/Perf01.mid (asap-dataset); "q1" = haydn/op1.krn,
\* "q2" = mozart/k80.krn (quartets); "d72" = xml/Did-1724-M-Ah, "d97" =
\* xml/Did-1973-M-Se, "d79" = xml/Did-1791-M-Se, "dx" = xml/Did-M-Se (didone).
OtherNames == {"s1", "s2", "s3", "q1", "q2", "d72", "d97", "d79", "dx"}

\* Lexicographic order of the paths (what sort_values and groupby sort by).
NameRank(n) ==
  CASE n = "a" -> 1 [] n = "b" -> 2 [] n = "c" -> 3 [] n = "d" -> 4 [] OTHER -> 5

RECURSIVE InsertSorted(_, _)
\* The row r inserted into rows, which are sorted by the rank of their name.
InsertSorted(r, rows) ==
  IF rows = <<>> THEN <<r>>
  ELSE IF NameRank(r.name) < NameRank(Head(rows).name) THEN <<r>> \o rows
       ELSE <<Head(rows)>> \o InsertSorted(r, Tail(rows))

RECURSIVE sort_values(_)
\* Series.sort_values on a Series of names: the rows in the order of their
\* names, every row keeping its index label.
sort_values(rows) ==
  IF rows = <<>> THEN <<>> ELSE InsertSorted(Head(rows), sort_values(Tail(rows)))

NaN == "NaN"
None == "None"

\* What the regular expression of jlr_label captures in a path: the directory
\* right below the dataset root; NaN when the path does not match.
jlr_regex(path) ==
  CASE path.name \in {"a", "b", "z", "d"} -> "Josquin"
    [] path.name = "c" -> "La Rue"
    [] OTHER -> NaN

\* str.fullmatch(legal_filenames) of the JLR dataset: r".+/XML/.*\.(?:xml|mid)".
jlr_legal(path) == path.name \in {"a", "b", "c", "v", "d"}

\* What the regular expression of asap_label captures: r".*asap-dataset/(\w+)/.*".
asap_regex(path) ==
  CASE path.name \in {"s1", "s3"} -> "Bach"
    [] path.name = "s2" -> "Liszt"
    [] OTHER -> NaN

\* What the regular expression of quartets_label captures: r".*quartets/(\w+)/.*".
quartets_regex(path) ==
  CASE path.name = "q1" -> "haydn"
    [] path.name = "q2" -> "mozart"
    [] OTHER -> NaN

\* What the regular expression of didone_label captures: the two digits after
\* the 1 of the year, r".*/xml/[\w -]+-1(\d{2})\d-[\w\[\]-]+".
didone_regex(path) ==
  CASE path.name = "d72" -> "72"
    [] path.name = "d97" -> "97"
    [] path.name = "d79" -> "79"
    [] OTHER -> NaN

\* str.fullmatch(legal_filenames) of asap-scores: r".+xml_score\.(?:musicxml|mid)".
asap_legal(path) == path.name \in {"s1", "s2"}

\* --------------------------------------------------------- the descriptors
\* A column of a CSV: its name, whether pandas reads it as int/float, and the
\* music21 vocabulary ("native", "jSymbolic" or "none") its name starts with.
Col(n, num, voc) == [name |-> n, numeric |-> num, m21 |-> voc]

\* get_music21_features_ids: the vocabularies a filter mode names.
get_music21_features_ids(feature_type) ==
  IF feature_type = "jSymbolic" THEN {"jSymbolic"}
  ELSE IF feature_type = "native" THEN {"native"}
  ELSE {"jSymbolic", "native"}

\* filter_music21_features: the columns that start with no id of the mode.
filter_music21_features(cols, feature_type) ==
  SelectSeq(cols, LAMBDA c : c.m21 \notin get_music21_features_ids(feature_type))

\* The entries of feature_sets the roster uses, with the header of the CSV
\* the tool writes and the prefix the tool puts before the dataset path.
feature_sets ==
  [musif |->
     [name |-> "musif", filename_col |-> "FileName",
      label_col_selector |-> "FileName", illegal_cols |-> {"Id", "WindowId"},
      music21_filter |-> None, csvname |-> "musif",
      header |-> <<Col("Id", TRUE, "none"), Col("WindowId", TRUE, "none"),
                   Col("FileName", FALSE, "none"), Col("f1", TRUE, "none"),
                   Col("f2", TRUE, "none")>>,
      prefix |-> ""],
   musif_native |->
     [name |-> "musif_native", filename_col |-> "FileName",
      label_col_selector |-> "FileName", illegal_cols |-> {"Id", "WindowId"},
      music21_filter |-> "all", csvname |-> "musif",
      header |-> <<Col("Id", TRUE, "none"), Col("WindowId", TRUE, "none"),
                   Col("FileName", FALSE, "none"), Col("f1", TRUE, "none"),
                   Col("f2", TRUE, "none")>>,
      prefix |-> ""],
   jsymbolic |->
     [name |-> "jsymbolic", filename_col |-> "Unnamed: 0",
      label_col_selector |-> "Unnamed: 0", illegal_cols |-> {},
      music21_filter |-> None, csvname |-> "jsymbolic",
      header |-> <<Col("Unnamed: 0", FALSE, "none"), Col("j1", TRUE, "none")>>,
      prefix |-> "/home/user/"],
   music21_native |->
     [name |-> "music21_native", filename_col |-> "FileName_0",
      label_col_selector |-> "FileName_0", illegal_cols |-> {},
      music21_filter |-> "native", csvname |-> "music21",
      header |-> <<Col("FileName_0", FALSE, "none"), Col("P1", TRUE, "jSymbolic"),
                   Col("K1", TRUE, "native"), Col("Composer", FALSE, "none")>>,
      prefix |-> ""]]

\* The JLR entry of datasets (nsplits is the state variable of that name).
JLR ==
  [name |-> "mass-duos-corpus-josquin-larue", friendly_name |-> "JLR",
   make_label |-> "jlr_label", extensions |-> {".mid", ".xml"}]

\* The asap-scores, didone and quartets entries of datasets.
datasets ==
  [JLR |-> JLR,
   asap |-> [name |-> "asap-dataset", friendly_name |-> "asap-scores",
             make_label |-> "asap_label", extensions |-> {".mid", ".xml"}],
   didone |-> [name |-> "didone", friendly_name |-> "didone",
               make_label |-> "didone_label", extensions |-> {".mid", ".xml"}],
   quartets |-> [name |-> "quartets", friendly_name |-> "quartets",
                 make_label |-> "quartets_label", extensions |-> {".mid", ".krn"}]]

\* The roster: Task(dataset, feature_set, extension) for three Tasks; 1 and 2
\* are siblings (same friendly name and extension), 3 has another extension.
\* TaskDef has a fourth Task, a sibling of 3, for the roster of four Tasks.
Tasks == {1, 2, 3}
TaskDef ==
  <<[dataset |-> JLR, feature_set |-> feature_sets.musif, extension |-> ".mid"],
    [dataset |-> JLR, feature_set |-> feature_sets.jsymbolic, extension |-> ".mid"],
    [dataset |-> JLR, feature_set |-> feature_sets.music21_native, extension |-> ".xml"],
    [dataset |-> JLR, feature_set |-> feature_sets.musif_native, extension |-> ".xml"]>>

\* ------------------------------------------------------------ ewld_label
\* A path is a sequence of characters; the dataset root str(S.DATASETS["EWLD"])
\* is the one element EwldRoot.
EwldRoot == "datasets/EWLD"

\* The code point order of the characters used (what groupby sorts by).
CharCode(c) ==
  CASE c = " " -> 32 [] c = "," -> 44 [] c = "." -> 46 [] c = "/" -> 47
    [] c = ";" -> 59 [] c = "_" -> 95 [] c = "p" -> 112 [] c = "q" -> 113
    [] OTHER -> 100

RECURSIVE LexLess(_, _)
\* a < b for two paths, compared as Python strings.
LexLess(a, b) ==
  IF b = <<>> THEN FALSE
  ELSE IF a = <<>> THEN TRUE
  ELSE IF Head(a) # Head(b) THEN CharCode(Head(a)) < CharCode(Head(b))
  ELSE LexLess(Tail(a), Tail(b))

\* str.replace(rf".*{S.DATASETS['EWLD']}/", "", regex=True): what follows the
\* last occurrence of the root and its slash.
strip_ewld_root(s) ==
  LET at == {i \in 1..(Len(s) - 1) : s[i] = EwldRoot /\ s[i + 1] = "/"}
  IN IF at = {} THEN s
     ELSE SubSeq(s, (CHOOSE i \in at : \A j \in at : j <= i) + 2, Len(s))

\* .str[:-4]
remove_extension(s) == SubSeq(s, 1, Len(s) - 4)

\* .str.replace(",", "_"), .str.replace(";", "_"), .str.replace(" ", "_")
replace_strange(s) ==
  [i \in 1..Len(s) |-> IF s[i] \in {",", ";", " "} THEN "_" ELSE s[i]]

\* The key the rows of the feature table are joined on.
ewld_df_key(path) == remove_extension(strip_ewld_root(path))

\* The key the rows of the genre table are joined on.
ewld_db_key(path) == replace_strange(remove_extension(path))

RECURSIVE ewld_sorted(_)
\* The paths of a set in increasing order.
ewld_sorted(S) ==
  IF S = {} THEN <<>>
  ELSE LET least == CHOOSE a \in S : \A b \in S : a = b \/ LexLess(a, b)
       IN <<least>> \o ewld_sorted(S \ {least})

\* db_df.groupby("path_leadsheet").first().reset_index(): one row per path,
\* with the genre of the first row of that path, sorted by path.
ewld_groupby_first(db) ==
  LET keys == ewld_sorted({db[i].path : i \in 1..Len(db)})
  IN [k \in 1..Len(keys) |->
        [path |-> keys[k],
         genre |-> db[CHOOSE i \in 1..Len(db) :
                        /\ db[i].path = keys[k]
                        /\ \A j \in 1..(i - 1) : db[j].path # keys[k]].genre]]

\* ewld_label(df, label_col_selector), db being the result of the SQL query:
\* the rows kept (their label column rewritten to the key) and the labels.
ewld_label(df, db) ==
  LET Keyed(df1, db1) ==
        LET Joined(df2) ==
              LET Labelled(y) ==
                    \* y.index = df.index needs as many labels as rows
                    IF Len(y) # Len(df2)
                    THEN [err |-> "ValueError", rows |-> df2, y |-> <<>>]
                    ELSE [err |-> "ok", rows |-> df2,
                          y |-> [i \in 1..Len(df2) |->
                                   [idx |-> df2[i].idx, label |-> y[i].genre]]]
              IN Labelled(SelectSeq(db1,
                            LAMBDA r : \E i \in 1..Len(df2) : df2[i].path = r.path))
        IN Joined(SelectSeq(df1,
                    LAMBDA r : \E i \in 1..Len(db1) : db1[i].path = r.path))
  IN Keyed([i \in 1..Len(df) |-> [df[i] EXCEPT !.path = ewld_df_key(@)]],
           ewld_groupby_first(
             [i \in 1..Len(db) |-> [db[i] EXCEPT !.path = ewld_db_key(@)]]))

\* No call of ewld_label is under way.
NoEwld == [pc |-> "idle", df |-> <<>>, db |-> <<>>, err |-> "ok", rows |-> <<>>,
           y |-> <<>>]

\* No call of Dataset.parse or FeatureSet.parse is under way.
NoParse ==
  [pc |-> "idle", op |-> "none", dataset |-> "JLR", ns |-> <<>>, remove |-> "True",
   fs |-> "musif", df |-> [cols |-> <<>>, rows |-> <<>>], err |-> "ok",
   cols |-> <<>>, rows |-> <<>>, y |-> <<>>, filenames |-> <<>>]

\* Task.__post_init__ (dataclass __init__): a Task right after construction.
\* attrs is the set of the attributes x, y, filenames_ the object has.
NewTask ==
  [loaded |-> FALSE, attrs |-> {}, cols |-> <<>>, x |-> <<>>, y |-> <<>>,
   filenames_ |-> <<>>]

\* ------------------------------------------------------------------ state
VARIABLES
  exists,            \* exists[t]: get_csv_path(t).exists()
  csv,               \* csv[t]: the names of the files the CSV of t has rows for
  nsplits,           \* Dataset.nsplits: <<>> for None, <<n>> for the number n
  KEEP_FIRST_10_PC,  \* settings.KEEP_FIRST_10_PC: "undefined", "False", "True"
  task,              \* task[t]: the state of Task t
  ctask,             \* the state of the ConcatTask of Tasks 1 and 2
  done,              \* the Tasks on which intersect(tasks) has completed in a pass
  last,              \* the last call made and how it ended
  lt,                \* the position of load_tasks: its pc, loop index, exception
  ewld,              \* a call of ewld_label: its arguments and its result
  call               \* a call of Dataset.parse or FeatureSet.parse and its result

vars ==
  <<exists, csv, nsplits, KEEP_FIRST_10_PC, task, ctask, done, last, lt, ewld,
    call>>

\* pd.read_csv: one row per file, labelled by its position, the path written
\* by the tool in the filename column.  A column of a CSV without rows is
\* read with dtype object, whatever the tool writes into it.
read_csv(t) ==
  [cols |-> [i \in 1..Len(TaskDef[t].feature_set.header) |->
               [TaskDef[t].feature_set.header[i] EXCEPT
                  !.numeric = @ /\ csv[t] # <<>>]],
   rows |-> [i \in 1..Len(csv[t]) |->
               [idx |-> i - 1, of |-> csv[t][i],
                path |-> [prefix |-> TaskDef[t].feature_set.prefix,
                          name |-> csv[t][i]]]]]

\* The rows of a table without the filename column.
Features(rows) == [i \in 1..Len(rows) |-> [idx |-> rows[i].idx, of |-> rows[i].of]]

\* df.loc[idx] for a boolean array idx as long as the table.
loc_mask(rows, mask) ==
  LET RECURSIVE Sel(_)
      Sel(i) == IF i > Len(rows) THEN <<>>
                ELSE (IF mask[i] THEN <<rows[i]>> ELSE <<>>) \o Sel(i + 1)
  IN Sel(1)

\* jlr_label (asap_label and quartets_label alike): the capture of the
\* regular expression for every row; the assertion fails on a NaN.
jlr_label(rows) ==
  LET y == [i \in 1..Len(rows) |-> [idx |-> rows[i].idx, label |-> jlr_regex(rows[i].path)]]
  IN [err |-> IF \E i \in 1..Len(y) : y[i].label = NaN THEN "AssertionError" ELSE "ok",
      rows |-> rows, y |-> y]

\* A plausible slip: the assertion on missing labels is left out.
unasserted_label(rows, captured) ==
  [err |-> "ok", rows |-> rows,
   y |-> [i \in 1..Len(rows) |-> [idx |-> rows[i].idx, label |-> captured[i]]]]

\* The labels an extractor makes of the captures of its regular expression,
\* and its assertion that none is missing.
asserted_label(rows, captured) ==
  [err |-> IF \E i \in 1..Len(rows) : captured[i] = NaN
           THEN "AssertionError" ELSE "ok",
   rows |-> rows,
   y |-> [i \in 1..Len(rows) |-> [idx |-> rows[i].idx, label |-> captured[i]]]]

\* asap_label.
asap_label(rows) ==
  asserted_label(rows, [i \in 1..Len(rows) |-> asap_regex(rows[i].path)])

\* quartets_label.
quartets_label(rows) ==
  asserted_label(rows, [i \in 1..Len(rows) |-> quartets_regex(rows[i].path)])

\* A plausible slip: the decade 97 is left as it is.
didone_replace_not(label) == label

\* y.replace("97", "79") of didone_label.
didone_replace(label) == IF label = "97" THEN "79" ELSE label

\* y.fillna("nd") of didone_label.
didone_fillna(label) == IF label = NaN THEN "nd" ELSE label

\* didone_label.
didone_label(rows) ==
  asserted_label(rows, [i \in 1..Len(rows) |->
                          didone_fillna(didone_replace(didone_regex(rows[i].path)))])

\* Dataset.make_label of the dataset.
make_label(dataset, rows) ==
  CASE dataset.make_label = "asap_label" -> asap_label(rows)
    [] dataset.make_label = "didone_label" -> didone_label(rows)
    [] dataset.make_label = "quartets_label" -> quartets_label(rows)
    [] OTHER -> jlr_label(rows)

\* str.fullmatch(self.legal_filenames) of the dataset (r".*" by default).
legal_filenames(dataset, path) ==
  CASE dataset.friendly_name = "JLR" -> jlr_legal(path)
    [] dataset.friendly_name = "asap-scores" -> asap_legal(path)
    [] OTHER -> TRUE

\* The number of rows of y with label l (np.unique(y, return_counts=True)).
y_freq(y, l) == Cardinality({i \in 1..Len(y) : y[i].label = l})

\* A plausible slip: classes of exactly n rows are retained too.
class_mask_at_least(y, n) == [i \in 1..Len(y) |-> y_freq(y, y[i].label) >= n]

\* The mask of the rows of y whose class has more than n rows.
class_mask(y, n) == [i \in 1..Len(y) |-> y_freq(y, y[i].label) > n]

\* filenames.str.replace(f".*{dataset_path}/?", "", regex=True): what follows
\* the dataset root in the path.
strip_dataset_path(path) == path.name

\* Dataset.parse(df, filename_col, label_col_selector, remove_col_label).
Dataset_parse(dataset, ns, df, filename_col, label_col_selector, remove_col_label) ==
  LET Labelled(ml) ==
        LET Legal(mask) ==
              LET Pruned(df1, y1) ==
                    LET Kept(keep) ==
                          LET Out(df2, y2) ==
                                [err |-> "ok",
                                 cols |-> IF remove_col_label # "None"
                                          THEN SelectSeq(df.cols,
                                                 LAMBDA c : c.name # label_col_selector)
                                          ELSE df.cols,
                                 rows |-> df2, y |-> y2,
                                 filenames |->
                                   [i \in 1..Len(df2) |->
                                      [idx |-> df2[i].idx,
                                       name |-> strip_dataset_path(df2[i].path)]]]
                          IN Out(loc_mask(df1, keep), loc_mask(y1, keep))
                    IN Kept(IF ns # <<>> THEN class_mask(y1, ns[1])
                            ELSE [i \in 1..Len(y1) |-> TRUE])
              IN Pruned(loc_mask(ml.rows, mask), loc_mask(ml.y, mask))
        IN IF ml.err # "ok"
           THEN [err |-> ml.err, cols |-> df.cols, rows |-> df.rows, y |-> <<>>,
                 filenames |-> <<>>]
           ELSE Legal([i \in 1..Len(ml.rows) |->
                         legal_filenames(dataset, ml.rows[i].path)])
  IN Labelled(make_label(dataset, df.rows))

\* A plausible slip: the result of df.drop is not assigned, so the illegal
\* columns stay.
FeatureSet_parse_drop_unassigned(fs, cols) ==
  [err |-> "ok",
   cols |-> IF fs.music21_filter # None
            THEN filter_music21_features(cols, fs.music21_filter)
            ELSE cols]

\* FeatureSet.parse: drop the illegal columns (KeyError when one is not a
\* column of the table), then the music21 filter.
FeatureSet_parse(fs, cols) ==
  LET names == {cols[i].name : i \in 1..Len(cols)}
      kept == SelectSeq(cols, LAMBDA c : c.name \notin fs.illegal_cols)
  IN IF fs.illegal_cols # {} /\ ~(fs.illegal_cols \subseteq names)
     THEN [err |-> "KeyError", cols |-> cols]
     ELSE [err |-> "ok",
           cols |-> IF fs.music21_filter # None
                    THEN filter_music21_features(kept, fs.music21_filter)
                    ELSE kept]

\* x.select_dtypes([int, float]).
select_dtypes(cols) == SelectSeq(cols, LAMBDA c : c.numeric)

\* The number of principal components Task.load_csv keeps.
N == 10
PCcols == [i \in 1..N |-> Col("PC", TRUE, "none")]

\* The last step of Task.load_csv, on the Task state s3 with the numeric
\* columns: the projection on N principal components if the flag is set
\* (PCA needs N rows and N columns at least), then __loaded = True.
load_csv_pca(s3) ==
  IF KEEP_FIRST_10_PC = "undefined"
  THEN [err |-> "AttributeError", st |-> s3, io |-> TRUE]
  ELSE IF KEEP_FIRST_10_PC = "True"
  THEN IF Len(s3.x) >= N /\ Len(s3.cols) >= N
       THEN [err |-> "ok", io |-> TRUE,
             st |-> [s3 EXCEPT !.cols = PCcols, !.loaded = TRUE]]
       ELSE [err |-> "ValueError", st |-> s3, io |-> TRUE]
  ELSE [err |-> "ok", st |-> [s3 EXCEPT !.loaded = TRUE], io |-> TRUE]

\* A plausible slip: load_csv without the test of __loaded reads again.
load_csv_is_loaded_never(st) == FALSE

\* A plausible slip: the test is inverted, an unloaded Task returns at once.
load_csv_is_loaded_inverted(st) == ~st.loaded

\* "if not self.__loaded" of Task.load_csv.
load_csv_is_loaded(st) == st.loaded

\* Task.load_csv of Task t in state st: the exception it ends with ("ok" for
\* none), the state it leaves and whether it read the CSV file (io).
Task_load_csv(t, st) ==
  LET fs == TaskDef[t].feature_set
      Read(df) ==
        LET Parsed(s1, p) ==
              LET Filtered(s2, f) ==
                    IF f.err # "ok" THEN [err |-> f.err, st |-> s2, io |-> TRUE]
                    ELSE load_csv_pca([s2 EXCEPT !.cols = select_dtypes(f.cols)])
              IN IF p.err # "ok" THEN [err |-> p.err, st |-> s1, io |-> TRUE]
                 ELSE Filtered([s1 EXCEPT !.attrs = {"x", "y", "filenames_"},
                                          !.cols = p.cols, !.x = Features(p.rows),
                                          !.y = p.y, !.filenames_ = p.filenames],
                               FeatureSet_parse(fs, p.cols))
        IN Parsed([st EXCEPT !.attrs = @ \cup {"x"}, !.cols = df.cols,
                             !.x = Features(df.rows)],
                  Dataset_parse(TaskDef[t].dataset, nsplits, df, fs.filename_col,
                                fs.label_col_selector, "True"))
  IN IF load_csv_is_loaded(st) THEN [err |-> "ok", st |-> st, io |-> FALSE]
     ELSE IF ~exists[t] THEN [err |-> "FileNotFoundError", st |-> st, io |-> FALSE]
     ELSE Read(read_csv(t))

\* ---------------------------------------------------------- Task.intersect
\* The names in a filename vector.
NamesOf(filenames) == {filenames[i].name : i \in 1..Len(filenames)}

\* task.dataset.friendly_name == self.dataset.friendly_name and
\* task.extension == self.extension
SameKey(t, u) ==
  /\ TaskDef[u].dataset.friendly_name = TaskDef[t].dataset.friendly_name
  /\ TaskDef[u].extension = TaskDef[t].extension

\* The filename vectors Task.intersect collects from the roster for Task t.
intersect_rows(T, t, roster) ==
  LET sel == SelectSeq(roster, LAMBDA u : "x" \in T[u].attrs /\ SameKey(t, u))
  IN [i \in 1..Len(sel) |-> T[sel[i]].filenames_]

\* A plausible slip: only the first collected vector restricts.
intersection_first_only(rows) == NamesOf(rows[1])

\* A plausible slip: the last collected vector restricts alone.
intersection_last_only(rows) == NamesOf(rows[Len(rows)])

\* set(intersect_rows[0]).intersection(*intersect_rows), for a non-empty list.
intersection(rows) ==
  {n \in NamesOf(rows[1]) : \A i \in 1..Len(rows) : n \in NamesOf(rows[i])}

\* Task.intersect(roster) of Task t, the Tasks being in the states T.
Task_intersect(T, t, roster) ==
  LET self == T[t]
      Collected(rows) ==
        LET Masked(idx) ==
              \* x.loc[idx.values]: the boolean array must be as long as x
              IF Len(idx) # Len(self.x) THEN [err |-> "IndexError", st |-> self]
              ELSE [err |-> "ok",
                    st |-> [self EXCEPT !.x = loc_mask(self.x, idx),
                                        !.y = loc_mask(self.y, idx)]]
            Common(common) ==
              Masked([i \in 1..Len(self.filenames_) |->
                        self.filenames_[i].name \in common])
        IN IF rows = <<>> THEN [err |-> "IndexError", st |-> self]
           ELSE Common(intersection(rows))
  IN IF ~self.loaded THEN [err |-> "AssertionError", st |-> self]
     ELSE IF \E i \in 1..Len(roster) : ~T[roster[i]].loaded
          THEN [err |-> "AssertionError", st |-> self]
     ELSE Collected(intersect_rows(T, t, roster))

\* ----------------------------------------------------------- ConcatTask
\* ConcatTask.tasks: the members of the ConcatTask, in order.
ctasks == <<1, 2>>

\* ConcatTask.__init__: a ConcatTask right after construction.  In its table x
\* the field "of" of a row lists, member by member, the file the member's
\* feature values in that row were extracted from.
NewConcatTask ==
  [loaded |-> FALSE, attrs |-> {}, cols |-> <<>>, x |-> <<>>, y |-> <<>>,
   filenames_ |-> <<>>]

\* The index labels of a table or Series, in row order.
Index(rows) == [i \in 1..Len(rows) |-> rows[i].idx]

\* series[labels] and frame.loc[labels] for a list of index labels: the rows
\* with these labels in the order of the list; KeyError when a label is not
\* in the index.
loc_labels(rows, labels) ==
  IF \E i \in 1..Len(labels) : labels[i] \notin Range(Index(rows))
  THEN [err |-> "KeyError", rows |-> <<>>]
  ELSE [err |-> "ok",
        rows |-> [i \in 1..Len(labels) |->
                    CHOOSE r \in Range(rows) : r.idx = labels[i]]]

\* assert np.all(y.values == self.y.values): numpy broadcasts an array of
\* length 1 against the other one; arrays that cannot be broadcast compare
\* as False before numpy 1.25 and raise ValueError from 1.25 on.
labels_match(y, cy, numpy) ==
  IF Len(y) = Len(cy)
  THEN IF \A i \in 1..Len(y) : y[i].label = cy[i].label
       THEN "ok" ELSE "AssertionError"
  ELSE IF Len(y) = 1
  THEN IF \A j \in 1..Len(cy) : y[1].label = cy[j].label
       THEN "ok" ELSE "AssertionError"
  ELSE IF Len(cy) = 1
  THEN IF \A i \in 1..Len(y) : y[i].label = cy[1].label
       THEN "ok" ELSE "AssertionError"
  ELSE IF numpy = "old" THEN "AssertionError" ELSE "ValueError"

\* pd.concat([self.x, x], axis=1, join="inner"): the rows of self.x whose
\* index label is an index label of x too, in the order of self.x, each
\* followed by the columns of the row of x with the same label.
concat_inner(cx, x) ==
  LET both == SelectSeq(cx, LAMBDA r : r.idx \in Range(Index(x)))
  IN [i \in 1..Len(both) |->
        [idx |-> both[i].idx,
         of |-> both[i].of \o
                <<(CHOOSE r \in Range(x) : r.idx = both[i].idx).of>>]]

RECURSIVE concat_members(_, _, _, _)
\* The loop of ConcatTask.load_csv over self.tasks[1:], then __loaded = True.
concat_members(T, C, rest, numpy) ==
  LET Loaded(m, l) ==
        LET Sorted(T1, y, x) ==
              LET Joined(rec) == [rec EXCEPT !.io = @ \/ l.io]
                  Compared(eq) ==
                    IF eq # "ok"
                    THEN [err |-> eq, task |-> T1, ctask |-> C, io |-> l.io]
                    ELSE Joined(concat_members(
                           T1,
                           [C EXCEPT !.x = concat_inner(C.x, x.rows),
                                     !.cols = C.cols \o l.st.cols],
                           Tail(rest), numpy))
              IN IF y.err # "ok"
                 THEN [err |-> y.err, task |-> T1, ctask |-> C, io |-> l.io]
                 ELSE Compared(labels_match(y.rows, C.y, numpy))
            Labels(T1, labels) ==
              Sorted(T1, loc_labels(l.st.y, labels), loc_labels(l.st.x, labels))
        IN IF l.err # "ok"
           THEN [err |-> l.err, task |-> [T EXCEPT ![m] = l.st], ctask |-> C,
                 io |-> l.io]
           ELSE Labels([T EXCEPT ![m] = l.st], Index(sort_values(l.st.filenames_)))
  IN IF rest = <<>>
     THEN [err |-> "ok", task |-> T, ctask |-> [C EXCEPT !.loaded = TRUE],
           io |-> FALSE]
     ELSE Loaded(Head(rest), Task_load_csv(Head(rest), T[Head(rest)]))

\* ConcatTask.load_csv, the Tasks being in the states T and the ConcatTask in
\* the state C, under a numpy before ("old") or from ("new") version 1.25.
ConcatTask_load_csv(T, C, numpy) ==
  LET m == ctasks[1]
      Loaded(l) ==
        LET Sorted(T1, C1, y, x) ==
              LET Joined(rec) == [rec EXCEPT !.io = @ \/ l.io]
              IN IF y.err # "ok"
                 THEN [err |-> y.err, task |-> T1, ctask |-> C1, io |-> l.io]
                 ELSE Joined(concat_members(
                        T1,
                        [C1 EXCEPT !.attrs = @ \cup {"y", "x"}, !.y = y.rows,
                                   !.cols = l.st.cols,
                                   !.x = [i \in 1..Len(x.rows) |->
                                            [idx |-> x.rows[i].idx,
                                             of |-> <<x.rows[i].of>>]]],
                        Tail(ctasks), numpy))
            Names_(T1, filenames) ==
              Sorted(T1,
                     [C EXCEPT !.attrs = @ \cup {"filenames_"},
                               !.filenames_ = filenames],
                     loc_labels(l.st.y, Index(filenames)),
                     loc_labels(l.st.x, Index(filenames)))
        IN IF l.err # "ok"
           THEN [err |-> l.err, task |-> [T EXCEPT ![m] = l.st], ctask |-> C,
                 io |-> l.io]
           ELSE Names_([T EXCEPT ![m] = l.st], sort_values(l.st.filenames_))
  IN IF C.loaded THEN [err |-> "ok", task |-> T, ctask |-> C, io |-> FALSE]
     ELSE Loaded(Task_load_csv(m, T[m]))

\* ------------------------------------------------- the state after set-up
\* The CSV files a tool may have written for a Task.
Csvs(t) == IF t \in {1, 2} THEN NoDupSeqs(Names, MaxRows) ELSE {<<"a">>}

\* The whole roster, in the order load_tasks builds it.
tasks == <<1, 2, 3>>

\* The rosters a caller passes to Task.intersect: none of the Tasks, the Task
\* of the other extension alone, the two siblings, the whole roster, and the
\* whole roster in reverse order.
Rosters ==
  {<<>>, <<tasks[3]>>, <<tasks[1], tasks[2]>>, tasks,
   [i \in 1..Len(tasks) |-> tasks[Len(tasks) + 1 - i]]}

NoCall == [op |-> "none", t |-> tasks[1], matched |-> FALSE, io |-> FALSE, err |-> "ok"]

\* When KEEP_FIRST_10_PC is undefined or True every load fails whatever the
\* CSV holds (it has fewer than N rows), so these two configurations start
\* with one content per CSV.
Init ==
  /\ exists \in [Tasks -> BOOLEAN]
  /\ nsplits \in {<<>>, <<1>>}
  /\ KEEP_FIRST_10_PC \in {"undefined", "False", "True"}
  /\ \E c1 \in Csvs(1), c2 \in Csvs(2), c3 \in Csvs(3) :
       /\ KEEP_FIRST_10_PC # "False" => c1 = <<"a", "b">> /\ c2 = <<"b", "a">>
       /\ csv = [t \in Tasks |-> IF exists[t] THEN <<c1, c2, c3>>[t] ELSE <<>>]
  /\ task = [t \in Tasks |-> NewTask]
  /\ ctask = NewConcatTask
  /\ done = {}
  /\ last = NoCall
  /\ lt = [pc |-> "start", i |-> 1, err |-> "ok", concat |-> <<>>]
  /\ ewld = NoEwld
  /\ call = NoParse

\* -------------------------------------------------- calls of the methods
\* A caller calls t.load_csv().
CallLoadCsv(t) ==
  \E r \in {Task_load_csv(t, task[t])} :
     /\ task' = [task EXCEPT ![t] = r.st]
     /\ last' = [op |-> "load_csv", t |-> t, matched |-> FALSE, io |-> r.io,
                 err |-> r.err]
     /\ UNCHANGED <<exists, csv, nsplits, KEEP_FIRST_10_PC, ewld, call, ctask, done, lt>>

\* A plausible slip: the filtered table and labels are assigned to every
\* sibling of the roster, not to self alone.
CallIntersect_siblings(t, roster) ==
  \E r \in {Task_intersect(task, t, roster)} :
     /\ task' = [u \in Tasks |->
                   IF u = t THEN r.st
                   ELSE IF r.err = "ok" /\ u \in Range(roster) /\ SameKey(t, u)
                   THEN [task[u] EXCEPT !.x = r.st.x, !.y = r.st.y]
                   ELSE task[u]]
     /\ last' = [op |-> "intersect", t |-> t,
                 matched |-> \E i \in 1..Len(roster) : SameKey(t, roster[i]),
                 io |-> FALSE, err |-> r.err]
     /\ UNCHANGED <<exists, csv, nsplits, KEEP_FIRST_10_PC, ewld, call, ctask, done, lt>>

\* A caller calls t.intersect(roster).
CallIntersect(t, roster) ==
  \E r \in {Task_intersect(task, t, roster)} :
     /\ task' = [task EXCEPT ![t] = r.st]
     /\ last' = [op |-> "intersect", t |-> t,
                 matched |-> \E i \in 1..Len(roster) : SameKey(t, roster[i]),
                 io |-> FALSE, err |-> r.err]
     /\ UNCHANGED <<exists, csv, nsplits, KEEP_FIRST_10_PC, ewld, call, ctask, done, lt>>

\* A caller calls load_csv() of the ConcatTask.
CallConcatLoadCsv(numpy) ==
  \E r \in {ConcatTask_load_csv(task, ctask, numpy)} :
     /\ task' = r.task
     /\ ctask' = r.ctask
     /\ last' = [op |-> "concat_load_csv", t |-> ctasks[1], matched |-> FALSE,
                 io |-> r.io, err |-> r.err]
     /\ UNCHANGED <<exists, csv, nsplits, KEEP_FIRST_10_PC, ewld, call, done, lt>>

\* A caller that loads Tasks and intersects them with rosters of its choice.
Next ==
  \/ \E t \in Tasks : CallLoadCsv(t)
  \/ \E t \in Tasks, roster \in Rosters : CallIntersect(t, roster)

Spec == Init /\ [][Next]_vars

\* ------------------------------------------------- the intersection pass
\* The intersection pass with its calls in any order: t.intersect(tasks).
PassIntersect(t) ==
  \E r \in {Task_intersect(task, t, tasks)} :
     /\ task' = [task EXCEPT ![t] = r.st]
     /\ done' = IF r.err = "ok" THEN done \cup {t} ELSE done
     /\ last' = [op |-> "intersect", t |-> t, matched |-> TRUE, io |-> FALSE,
                 err |-> r.err]
     /\ UNCHANGED <<exists, csv, nsplits, KEEP_FIRST_10_PC, ewld, call, ctask, lt>>

\* A caller that loads Tasks, runs the intersection pass and loads the
\* ConcatTask, in any order.
NextPass ==
  \/ \E t \in Tasks : CallLoadCsv(t)
  \/ \E t \in Tasks : PassIntersect(t)
  \/ \E numpy \in {"old", "new"} : CallConcatLoadCsv(numpy)

SpecPass == Init /\ [][NextPass]_vars

\* ------------------------------------------------------------- load_tasks
\* The module-level list concat_tasks: the combinations of feature-set names.
concat_tasks ==
  <<{"musif_native", "jSymbolic"},
    {"musif_native", "music21_native"},
    {"music21_native", "jSymbolic"},
    {"musif_native", "music21_native", "jSymbolic"}>>

\* The entries of datasets in the order of the list, and the extensions of a
\* dataset in the order of its list.
datasets_list == <<datasets.asap, datasets.didone, datasets.JLR, datasets.quartets>>
extensions_list(d) == SelectSeq(<<".mid", ".xml", ".krn">>, LAMBDA e : e \in d.extensions)

\* The Tasks of the roster the innermost loop of step 3 collects for dataset
\* d, extension ext and combination c (the roster holds plain Tasks only).
to_concat(roster, d, ext, c) ==
  SelectSeq(roster, LAMBDA t :
    /\ TaskDef[t].feature_set.name \in c
    /\ TaskDef[t].extension = ext
    /\ TaskDef[t].dataset.friendly_name = d.friendly_name)

\* The loops of step 3 over a list of combinations: the ConcatTasks they
\* build, each given by the Tasks it joins.
add_concat_tasks(combinations, roster) ==
  LET OfCombination(d, ext, c) ==
        IF Len(to_concat(roster, d, ext, c)) > 1
        THEN <<to_concat(roster, d, ext, c)>> ELSE <<>>
      OfExtension(d, ext) ==
        Concat([k \in 1..Len(combinations) |-> OfCombination(d, ext, combinations[k])])
      OfDataset(d) ==
        Concat([j \in 1..Len(extensions_list(d)) |-> OfExtension(d, extensions_list(d)[j])])
  IN Concat([i \in 1..Len(datasets_list) |-> OfDataset(datasets_list[i])])

\* The ConcatTasks step 3 of load_tasks builds: the loops iterate over the
\* local list concat_tasks, assigned the empty list right before them.
load_tasks_concat(roster) == add_concat_tasks(<<>>, roster)

\* load_tasks starts: the roster is built, step 1 begins.
LoadTasksStart ==
  /\ lt.pc = "start"
  /\ lt' = [lt EXCEPT !.pc = "load", !.i = 1]
  /\ UNCHANGED <<exists, csv, nsplits, KEEP_FIRST_10_PC, ewld, call, task, ctask, done, last>>

\* One iteration of load_task_csvs(roster): FileNotFoundError is caught, any
\* other exception leaves load_tasks.
load_task_csvs(roster) ==
  /\ lt.pc = "load"
  /\ \E t \in {roster[lt.i]} : \E r \in {Task_load_csv(t, task[t])} :
        /\ task' = [task EXCEPT ![t] = r.st]
        /\ last' = [op |-> "load_csv", t |-> t, matched |-> FALSE, io |-> r.io,
                    err |-> r.err]
        /\ lt' = IF r.err \notin {"ok", "FileNotFoundError"}
                 THEN [lt EXCEPT !.pc = "raised", !.err = r.err]
                 ELSE IF lt.i < Len(roster) THEN [lt EXCEPT !.i = @ + 1]
                 ELSE [lt EXCEPT !.pc = "intersect", !.i = 1]
  /\ UNCHANGED <<exists, csv, nsplits, KEEP_FIRST_10_PC, ewld, call, ctask, done>>

\* One iteration of step 2: t.intersect(roster).
LoadTasksIntersect(roster) ==
  /\ lt.pc = "intersect"
  /\ \E t \in {roster[lt.i]} : \E r \in {Task_intersect(task, t, roster)} :
        /\ task' = [task EXCEPT ![t] = r.st]
        /\ done' = IF r.err = "ok" THEN done \cup {t} ELSE done
        /\ last' = [op |-> "intersect", t |-> t, matched |-> TRUE, io |-> FALSE,
                    err |-> r.err]
        /\ lt' = IF r.err # "ok" THEN [lt EXCEPT !.pc = "raised", !.err = r.err]
                 ELSE IF lt.i < Len(roster) THEN [lt EXCEPT !.i = @ + 1]
                 ELSE [lt EXCEPT !.pc = "concat", !.i = 1]
  /\ UNCHANGED <<exists, csv, nsplits, KEEP_FIRST_10_PC, ewld, call, ctask>>

\* Steps 3 and 4 and the return: the ConcatTasks built are loaded by
\* load_task_csvs and appended to the roster.
LoadTasksReturn(roster) ==
  /\ lt.pc = "concat"
  /\ lt' = [lt EXCEPT !.pc = "returned", !.concat = load_tasks_concat(roster)]
  /\ UNCHANGED <<exists, csv, nsplits, KEEP_FIRST_10_PC, ewld, call, task, ctask, done, last>>

load_tasks ==
  \/ LoadTasksStart
  \/ load_task_csvs(tasks)
  \/ LoadTasksIntersect(tasks)
  \/ LoadTasksReturn(tasks)

SpecLoadTasks == Init /\ [][load_tasks]_vars

\* ----------------------------------- load_tasks with a roster of four Tasks
\* The roster of TaskDef: two siblings of extension .mid (musif, jsymbolic)
\* and two of extension .xml (music21_native, musif_native).
all_tasks == <<1, 2, 3, 4>>

\* The CSV files of the four Tasks: the two .mid siblings have any files of
\* LoadNames, the two .xml siblings the file "a".
LoadCsvs(t) == IF t \in {1, 2} THEN NoDupSeqs(LoadNames, MaxRows) ELSE {<<"a">>}

InitLoadTasks ==
  /\ exists \in [Range(all_tasks) -> BOOLEAN]
  /\ nsplits \in {<<>>, <<1>>}
  /\ KEEP_FIRST_10_PC \in {"undefined", "False", "True"}
  /\ \E c1 \in LoadCsvs(1), c2 \in LoadCsvs(2), c3 \in LoadCsvs(3), c4 \in LoadCsvs(4) :
       /\ KEEP_FIRST_10_PC # "False" => c1 = <<"a", "b">> /\ c2 = <<"b", "a">>
       /\ csv = [t \in Range(all_tasks) |->
                   IF exists[t] THEN <<c1, c2, c3, c4>>[t] ELSE <<>>]
  /\ task = [t \in Range(all_tasks) |-> NewTask]
  /\ ctask = NewConcatTask
  /\ done = {}
  /\ last = NoCall
  /\ lt = [pc |-> "start", i |-> 1, err |-> "ok", concat |-> <<>>]
  /\ ewld = NoEwld
  /\ call = NoParse

load_all_tasks ==
  \/ LoadTasksStart
  \/ load_task_csvs(all_tasks)
  \/ LoadTasksIntersect(all_tasks)
  \/ LoadTasksReturn(all_tasks)

SpecLoadAllTasks == InitLoadTasks /\ [][load_all_tasks]_vars

\* ------------------------------------------------- a call of ewld_label
EwldStems == {<<"p">>, <<"q">>, <<"p", "_">>, <<"p", ",">>}

\* The filename column of a feature table: paths below the dataset root.
EwldFiles == {<<EwldRoot, "/">> \o s \o <<".", "m", "i", "d">> : s \in EwldStems}

\* The rows the SQL query returns: a leadsheet path and a genre.
EwldWorks ==
  {[path |-> s \o <<".", "m", "x", "l">>, genre |-> g] :
     s \in EwldStems, g \in {"jazz", "rock"}}

RECURSIVE SeqsUpTo(_, _)
\* The sequences over S of length at most n.
SeqsUpTo(S, n) ==
  IF n = 0 THEN {<<>>}
  ELSE LET shorter == SeqsUpTo(S, n - 1)
       IN shorter \cup {Append(q, e) : q \in shorter, e \in S}

InitEwld ==
  /\ exists = [t \in Tasks |-> FALSE]
  /\ csv = [t \in Tasks |-> <<>>]
  /\ nsplits = <<>>
  /\ KEEP_FIRST_10_PC = "False"
  /\ task = [t \in Tasks |-> NewTask]
  /\ ctask = NewConcatTask
  /\ done = {}
  /\ last = NoCall
  /\ lt = [pc |-> "start", i |-> 1, err |-> "ok", concat |-> <<>>]
  /\ call = NoParse
  /\ \E files \in NoDupSeqs(EwldFiles, MaxEwldRows),
        db \in SeqsUpTo(EwldWorks, MaxEwldRows) :
       ewld = [NoEwld EXCEPT
                 !.pc = "called",
                 !.df = [i \in 1..Len(files) |-> [idx |-> i - 1, path |-> files[i]]],
                 !.db = db]

CallEwldLabel ==
  /\ ewld.pc = "called"
  /\ \E r \in {ewld_label(ewld.df, ewld.db)} :
       ewld' = [ewld EXCEPT !.pc = "returned", !.err = r.err,
                            !.rows = r.rows, !.y = r.y]
  /\ UNCHANGED <<exists, csv, nsplits, KEEP_FIRST_10_PC, task, ctask, done, last, lt,
                 call>>

SpecEwld == InitEwld /\ [][CallEwldLabel]_vars

\* ------------------------- calls of Dataset.parse and of FeatureSet.parse
\* The files a CSV of the dataset may have rows for.
Corpus(d) ==
  CASE d = "JLR" -> Names \cup Unmatched
    [] d = "asap" -> {"s1", "s2", "s3", "u"}
    [] d = "didone" -> {"d72", "d97", "d79", "dx"}
    [] OTHER -> {"q1", "q2", "u"}

\* pd.read_csv of a CSV a tool wrote with the columns cols for the files names.
ParseDf(cols, names) ==
  [cols |-> cols,
   rows |-> [i \in 1..Len(names) |->
               [idx |-> i - 1, of |-> names[i],
                path |-> [prefix |-> "", name |-> names[i]]]]]

\* The tables with some of the columns of a header, in the order of the header.
ColumnChoices(header) ==
  {SelectSeq(header, LAMBDA c : c.name \in keep) :
     keep \in SUBSET {header[i].name : i \in 1..Len(header)}}

InitParse ==
  /\ exists = [t \in Tasks |-> FALSE]
  /\ csv = [t \in Tasks |-> <<>>]
  /\ nsplits = <<>>
  /\ KEEP_FIRST_10_PC = "False"
  /\ task = [t \in Tasks |-> NewTask]
  /\ ctask = NewConcatTask
  /\ done = {}
  /\ last = NoCall
  /\ lt = [pc |-> "start", i |-> 1, err |-> "ok", concat |-> <<>>]
  /\ ewld = NoEwld
  /\ \/ \E d \in DOMAIN datasets, ns \in {<<>>, <<1>>, <<2>>},
           remove \in {"True", "False"} :
         \E names \in NoDupSeqs(Corpus(d), MaxParseRows) :
           call = [NoParse EXCEPT
                     !.pc = "called", !.op = "Dataset.parse", !.dataset = d,
                     !.ns = ns, !.remove = remove,
                     !.df = ParseDf(feature_sets.musif.header, names)]
     \/ \E f \in DOMAIN feature_sets :
         \E cols \in ColumnChoices(feature_sets[f].header) :
           call = [NoParse EXCEPT
                     !.pc = "called", !.op = "FeatureSet.parse", !.fs = f,
                     !.df = ParseDf(cols, <<"a", "c">>)]

\* Dataset.parse(df, "FileName", "FileName", remove_col_label) on a dataset
\* whose nsplits is call.ns.
CallDatasetParse ==
  /\ call.pc = "called" /\ call.op = "Dataset.parse"
  /\ \E r \in {Dataset_parse(datasets[call.dataset], call.ns, call.df,
                             "FileName", "FileName", call.remove)} :
       call' = [call EXCEPT !.pc = "returned", !.err = r.err, !.cols = r.cols,
                            !.rows = r.rows, !.y = r.y, !.filenames = r.filenames]
  /\ UNCHANGED <<exists, csv, nsplits, KEEP_FIRST_10_PC, task, ctask, done, last, lt,
                 ewld>>

\* FeatureSet.parse(df): the rows of df are those of the result.
CallFeatureSetParse ==
  /\ call.pc = "called" /\ call.op = "FeatureSet.parse"
  /\ \E r \in {FeatureSet_parse(feature_sets[call.fs], call.df.cols)} :
       call' = [call EXCEPT !.pc = "returned", !.err = r.err, !.cols = r.cols,
                            !.rows = call.df.rows]
  /\ UNCHANGED <<exists, csv, nsplits, KEEP_FIRST_10_PC, task, ctask, done, last, lt,
                 ewld>>

NextParse == CallDatasetParse \/ CallFeatureSetParse

SpecParse == InitParse /\ [][NextParse]_vars

\* --------------------- the label extractors, called directly and by a load
\* Task 1 has a CSV with any rows of the corpus of JLR, also with paths the
\* extractor does not match.
InitLoad ==
  /\ exists = [t \in Tasks |-> TRUE]
  /\ nsplits \in {<<>>, <<1>>}
  /\ KEEP_FIRST_10_PC \in {"undefined", "False", "True"}
  /\ \E c1 \in NoDupSeqs(Corpus("JLR"), MaxRows) :
       csv = [t \in Tasks |-> IF t = tasks[1] THEN c1 ELSE <<"a">>]
  /\ task = [t \in Tasks |-> NewTask]
  /\ ctask = NewConcatTask
  /\ done = {}
  /\ last = NoCall
  /\ lt = [pc |-> "start", i |-> 1, err |-> "ok", concat |-> <<>>]
  /\ ewld = NoEwld
  /\ call = NoParse

InitLabel == InitLoad \/ InitParse

NextLabel ==
  \/ \E t \in Tasks : CallLoadCsv(t)
  \/ CallDatasetParse
  \/ CallFeatureSetParse

SpecLabel == InitLabel /\ [][NextLabel]_vars

\* ================================================================ claims
\* The files the rows of a feature table x were extracted from.
FilesOfX(st) == {st.x[i].of : i \in 1..Len(st.x)}

\* The filenames of the rows of a label vector y (by index label).
FilesOfY(st) ==
  {st.filenames_[i].name : i \in {j \in 1..Len(st.filenames_) :
                                    st.filenames_[j].idx \in Range(Index(st.y))}}

\* The labels of y in the order of the filenames of its rows.
SortedLabels(st) ==
  LET kept == SelectSeq(sort_values(st.filenames_),
                        LAMBDA r : r.idx \in Range(Index(st.y)))
  IN [i \in 1..Len(kept) |->
        (CHOOSE r \in Range(st.y) : r.idx = kept[i].idx).label]

\* The label the dataset gives file n.
LabelOfFile(n) == jlr_regex([prefix |-> "", name |-> n])

\* C1: when the CSV of some Task of the roster is absent (other Tasks have
\* theirs and the configuration is complete), load_tasks skips that Task,
\* runs the intersection pass for the loaded Tasks and returns without raising.
C1_LoadTasksSkipsAbsentCsv ==
  (/\ \E t \in Tasks : ~exists[t]
   /\ \E t \in Tasks : exists[t]
   /\ KEEP_FIRST_10_PC = "False")
    => lt.pc # "raised"

\* C2: once every Task is loaded and intersect(roster) has completed on each,
\* two Tasks of the same dataset and extension retain the rows of the same
\* set of files, in x and in y.
C2_SiblingsRetainSameFiles ==
  done = Tasks =>
    \A t, u \in Tasks :
      SameKey(t, u) =>
        /\ FilesOfX(task[t]) = FilesOfX(task[u])
        /\ FilesOfY(task[t]) = FilesOfY(task[u])

\* A pass that has completed on every Task and has removed a row of Task 1
\* while keeping another.
C2_Witness ==
  /\ done = Tasks
  /\ Len(task[1].x) > 0
  /\ Len(task[1].x) < Len(task[1].filenames_)

\* C3: after the intersection pass the filename vectors filenames_ of the
\* Tasks of one dataset and extension are equal as sets.
C3_FilenameVectorsSetEqual ==
  done = Tasks =>
    \A t, u \in Tasks :
      SameKey(t, u) => NamesOf(task[t].filenames_) = NamesOf(task[u].filenames_)

\* C4: a loaded Task has as many rows in x as in y as in filenames_, also
\* after calls of intersect.
C4_SameRowCount ==
  \A t \in Tasks :
    task[t].loaded =>
      /\ Len(task[t].x) = Len(task[t].y)
      /\ Len(task[t].y) = Len(task[t].filenames_)

\* The members of the ConcatTask are loaded and the pass has completed on them.
MembersIntersected ==
  \A i \in 1..Len(ctasks) : task[ctasks[i]].loaded /\ ctasks[i] \in done

\* A call of ConcatTask.load_csv that loads the ConcatTask.
ConcatLoads == last'.op = "concat_load_csv" /\ ~ctask.loaded /\ ctask'.loaded

\* C5: after ConcatTask.load_csv on loaded and intersected members, the
\* feature values of every row come from one file for all members, and the
\* label of the row is the label of that file.
C5_ConcatRowsAlignedByFilename ==
  [][(ConcatLoads /\ MembersIntersected) =>
       \A i \in 1..Len(ctask'.x) :
         /\ \A k \in 1..Len(ctask'.x[i].of) : ctask'.x[i].of[k] = ctask'.x[i].of[1]
         /\ i <= Len(ctask'.y)
         /\ ctask'.y[i].label = LabelOfFile(ctask'.x[i].of[1])]_vars

\* C6: after ConcatTask.load_csv on loaded and intersected members, the
\* ConcatTask has the common row count of its members and as many columns as
\* its members have together.
C6_ConcatShape ==
  [][(ConcatLoads /\ MembersIntersected) =>
       /\ \A i \in 1..Len(ctasks) : Len(ctask'.x) = Len(task'[ctasks[i]].x)
       /\ Len(ctask'.cols) =
            Len(Concat([i \in 1..Len(ctasks) |-> task'[ctasks[i]].cols]))]_vars

\* C7: ConcatTask.load_csv fails and leaves the ConcatTask unloaded whenever
\* the labels of some member, in filename order, are not element-wise those
\* of the first member (stated for members that have rows).
C7_ConcatFailsOnLabelMismatch ==
  [][(/\ last'.op = "concat_load_csv"
      /\ ~ctask.loaded
      /\ \A i \in 1..Len(ctasks) :
           task'[ctasks[i]].loaded /\ task'[ctasks[i]].y # <<>>
      /\ \E i \in 2..Len(ctasks) :
           SortedLabels(task'[ctasks[i]]) # SortedLabels(task'[ctasks[1]]))
       => (last'.err # "ok" /\ ~ctask'.loaded)]_vars

\* The genre of the first genre-table entry whose normalized path is key.
EwldGenreOf(key) ==
  ewld.db[CHOOSE i \in 1..Len(ewld.db) :
            /\ ewld_db_key(ewld.db[i].path) = key
            /\ \A j \in 1..(i - 1) : ewld_db_key(ewld.db[j].path) # key].genre

\* The normalized paths of the genre table.
EwldPathSet == {ewld_db_key(ewld.db[i].path) : i \in 1..Len(ewld.db)}

\* C8: ewld_label is an inner join on the normalized path: a row of the
\* feature table is kept iff its normalized filename is in the path set of the
\* genre table, and the label of every kept row is the genre of the entry of
\* that path, in whatever order the rows of the feature table come.
C8_EwldInnerJoin ==
  ewld.pc = "returned" =>
    /\ ewld.err = "ok"
    /\ {r.idx : r \in Range(ewld.rows)} =
         {r.idx : r \in {d \in Range(ewld.df) : ewld_df_key(d.path) \in EwldPathSet}}
    /\ \A r \in Range(ewld.rows) :
         \E l \in Range(ewld.y) :
           l.idx = r.idx /\ l.label = EwldGenreOf(r.path)

\* C9: intersect on a loaded Task with a roster that holds no Task of its
\* dataset and extension completes and changes nothing.
C9_IntersectWithoutSiblingPassesThrough ==
  [][(last'.op = "intersect" /\ ~last'.matched /\ task[last'.t].loaded)
       => (last'.err = "ok" /\ task' = task)]_vars

\* C10: load_csv on a loaded Task reads no file and leaves x, y and
\* filenames_ (the whole state of every Task) as they were.
C10_LoadCsvIdempotent ==
  [][(last'.op = "load_csv" /\ task[last'.t].loaded)
       => (last'.err = "ok" /\ ~last'.io /\ task' = task /\ ctask' = ctask)]_vars

\* load_csv has just been called again on a Task whose rows intersect had
\* restricted before.
C10_Witness ==
  /\ last.op = "load_csv"
  /\ last.err = "ok"
  /\ ~last.io
  /\ task[last.t].loaded
  /\ Len(task[last.t].x) < Len(task[last.t].filenames_)

\* ------------------------------------------------- claims on the parsers
\* Dataset.parse has returned a table.
ParseReturned == call.pc = "returned" /\ call.op = "Dataset.parse" /\ call.err = "ok"

\* The rows of the table given to Dataset.parse that pass the legal-filename
\* filter of the dataset.
ParseLegalRows ==
  {r \in Range(call.df.rows) : legal_filenames(datasets[call.dataset], r.path)}

\* The label the extractor of the dataset gives the row r of that table.
ParseLabelOf(r) ==
  (CHOOSE l \in Range(make_label(datasets[call.dataset], call.df.rows).y) :
     l.idx = r.idx).label

\* The number of legal rows of the table with the label of row r.
ParseClassSize(r) ==
  Cardinality({q \in ParseLegalRows : ParseLabelOf(q) = ParseLabelOf(r)})

C12_ClassesAboveTwiceNsplits ==
  (ParseReturned /\ call.ns # <<>>) =>
    \A l \in Range(call.y) : y_freq(call.y, l.label) > 2 * call.ns[1]

\* C14: didone_label never fails and drops no row; the label of a row is
\* "79" when the captured decade is "97", the captured decade otherwise, and
\* "nd" when the path does not match.
C14_DidoneLabelTotal ==
  (call.pc = "returned" /\ call.op = "Dataset.parse" /\ call.dataset = "didone") =>
    /\ call.err = "ok"
    /\ call.ns = <<>> => Index(call.y) = Index(call.df.rows)
    /\ \A l \in Range(call.y) :
         \E r \in Range(call.df.rows) :
           /\ r.idx = l.idx
           /\ l.label = CASE didone_regex(r.path) = "97" -> "79"
                          [] didone_regex(r.path) = NaN -> "nd"
                          [] OTHER -> didone_regex(r.path)
           /\ l.label # NaN

\* didone_label has labelled a row of the decade 97, a row of another
\* decade and a row that does not match.
C14_Witness ==
  /\ call.pc = "returned" /\ call.op = "Dataset.parse" /\ call.dataset = "didone"
  /\ call.ns = <<>>
  /\ {l.label : l \in Range(call.y)} = {"79", "72", "nd"}
  /\ \E r \in Range(call.df.rows) : didone_regex(r.path) = "97"

\* The names of the columns of a table, in order.
ColNames(cols) == [i \in 1..Len(cols) |-> cols[i].name]

\* C19: FeatureSet.parse without secondary filter, on a table that has the
\* declared illegal columns, returns the other columns of the table, each as
\* it was and in the original order, and the rows unchanged.
C19_FeatureSetParseDropsIllegal ==
  (/\ call.pc = "returned" /\ call.op = "FeatureSet.parse"
   /\ feature_sets[call.fs].music21_filter = None
   /\ feature_sets[call.fs].illegal_cols \subseteq Range(ColNames(call.df.cols))) =>
    /\ call.err = "ok"
    /\ Range(ColNames(call.cols)) =
         Range(ColNames(call.df.cols)) \ feature_sets[call.fs].illegal_cols
    /\ Range(call.cols) \subseteq Range(call.df.cols)
    /\ Len(call.cols) = Cardinality(Range(ColNames(call.cols)))
    /\ \A i, j \in 1..Len(call.cols) :
         i < j => \E k, m \in 1..Len(call.df.cols) :
                    k < m /\ call.df.cols[k] = call.cols[i] /\ call.df.cols[m] = call.cols[j]
    /\ call.rows = call.df.rows

\* FeatureSet.parse of musif has returned FileName, f1, f2 for the columns
\* Id, WindowId, FileName, f1, f2.
C19_Witness ==
  /\ call.pc = "returned" /\ call.op = "FeatureSet.parse" /\ call.fs = "musif"
  /\ ColNames(call.df.cols) = <<"Id", "WindowId", "FileName", "f1", "f2">>
  /\ ColNames(call.cols) = <<"FileName", "f1", "f2">>

\* C20: Dataset.parse removes the label column from the table it returns
\* when remove_col_label is true, and leaves it when remove_col_label is False.
C20_LabelColumnKeptOnRequest ==
  ParseReturned =>
    (call.remove = "False" <=> "FileName" \in Range(ColNames(call.cols)))

\* The table given to Dataset.parse has a row the extractor of the dataset
\* (asap_label, jlr_label or quartets_label) does not match.
ParseHasUnmatched ==
  /\ call.op = "Dataset.parse"
  /\ call.dataset \in {"asap", "JLR", "quartets"}
  /\ \E r \in Range(call.df.rows) :
       CASE call.dataset = "asap" -> asap_regex(r.path) = NaN
         [] call.dataset = "quartets" -> quartets_regex(r.path) = NaN
         [] OTHER -> jlr_regex(r.path) = NaN

\* C13: when a row of the table does not match the regular expression of
\* asap_label, jlr_label or quartets_label, the extraction fails with an
\* AssertionError whether or not the row is a legal filename, and
\* Task.load_csv ends with that error, the Task not loaded and without labels.
C13_MissingLabelAborts ==
  [][/\ (call'.pc = "returned" /\ ParseHasUnmatched) =>
          (call'.err = "AssertionError" /\ call'.y = <<>> /\ call'.filenames = <<>>)
     /\ (/\ last'.op = "load_csv"
         /\ ~task[last'.t].loaded
         /\ exists[last'.t]
         /\ \E i \in 1..Len(csv[last'.t]) :
              jlr_regex([prefix |-> "", name |-> csv[last'.t][i]]) = NaN) =>
          /\ last'.err = "AssertionError"
          /\ ~task'[last'.t].loaded
          /\ task'[last'.t].y = <<>>
          /\ task'[last'.t].filenames_ = <<>>
          /\ task'[last'.t].attrs \subseteq {"x"}]_vars

\* load_csv has failed on a CSV with a matching row and a row that does not
\* match and is no legal filename.
C13_Witness ==
  /\ last.op = "load_csv"
  /\ last.err = "AssertionError"
  /\ csv[last.t] = <<"a", "u">>
  /\ ~task[last.t].loaded

\* C15: load_csv on a Task that is not loaded and whose CSV file is absent
\* raises FileNotFoundError at every call, leaves the Task not loaded and
\* sets none of x, y, filenames_.
C15_AbsentCsvNotFound ==
  [][(last'.op = "load_csv" /\ ~exists[last'.t] /\ ~task[last'.t].loaded) =>
       /\ last'.err = "FileNotFoundError"
       /\ ~last'.io
       /\ ~task'[last'.t].loaded
       /\ task'[last'.t].attrs = {}
       /\ task' = task]_vars

\* load_csv has just failed on a Task whose CSV file is absent.
C15_Witness ==
  /\ last.op = "load_csv"
  /\ last.err = "FileNotFoundError"
  /\ ~exists[last.t]
  /\ task[last.t] = NewTask

\* C16: with the settings as settings.py defines them (no caller has set
\* KEEP_FIRST_10_PC), load_csv does not fail on an undefined configuration
\* field and applies no projection.
C16_LoadCsvWithDefaultSettings ==
  (last.op = "load_csv" /\ KEEP_FIRST_10_PC = "undefined") =>
    last.err # "AttributeError"

\* C17: a call of intersect on Task t changes the state of no other Task,
\* not the filenames_ of t, not the ConcatTask and no descriptor.
C17_IntersectMutatesOnlySelf ==
  [][last'.op = "intersect" =>
       /\ \A u \in Tasks \ {last'.t} : task'[u] = task[u]
       /\ task'[last'.t].filenames_ = task[last'.t].filenames_
       /\ ctask' = ctask
       /\ nsplits' = nsplits]_vars

\* intersect has just dropped rows of a Task whose sibling is loaded and has
\* rows.
C17_Witness ==
  /\ last.op = "intersect"
  /\ last.err = "ok"
  /\ Len(task[last.t].x) < Len(task[last.t].filenames_)
  /\ \E u \in Tasks \ {last.t} :
       SameKey(last.t, u) /\ task[u].loaded /\ Len(task[u].x) > 0

\* The orders of the Tasks of a roster.
RosterOrders(members) ==
  {p \in [1..Cardinality(members) -> members] : Range(p) = members}

\* C18: the outcome of intersect (the error, the feature table and the label
\* vector it leaves) is the same for every order of the Tasks in the roster
\* (a roster of fewer than two Tasks has one order).
C18_IntersectOrderIndependent ==
  \A t \in Tasks :
    \A members \in {Range(roster) : roster \in {r \in Rosters : Len(r) > 1}} :
      \E first \in {Task_intersect(task, t, CHOOSE p \in RosterOrders(members) : TRUE)} :
        \A p \in RosterOrders(members) : Task_intersect(task, t, p) = first

\* intersect with the whole roster has just dropped some rows of a Task and
\* kept others, the sibling holding other files.
C18_Witness ==
  /\ last.op = "intersect"
  /\ last.err = "ok"
  /\ 0 < Len(task[last.t].x)
  /\ Len(task[last.t].x) < Len(task[last.t].filenames_)
  /\ \E u \in Tasks \ {last.t} :
       SameKey(last.t, u) /\ NamesOf(task[u].filenames_) # NamesOf(task[last.t].filenames_)

\* C23: a call of load_csv that fails (stated for the configuration without
\* projection, KEEP_FIRST_10_PC = False) leaves the Task as it was: not
\* loaded and without x, y and filenames_, so that a Task has the attribute
\* x iff it is loaded.
C23_FailedLoadLeavesNoState ==
  [][(last'.op = "load_csv" /\ last'.err # "ok" /\ KEEP_FIRST_10_PC = "False") =>
       /\ task'[last'.t] = task[last'.t]
       /\ \A t \in Tasks : "x" \in task'[t].attrs <=> task'[t].loaded]_vars


\* The loaded plain Tasks of dataset d and extension ext whose feature-set
\* name is in the combination c.
LoadedOfCombination(d, ext, c) ==
  {t \in DOMAIN task :
     /\ task[t].loaded
     /\ TaskDef[t].feature_set.name \in c
     /\ TaskDef[t].extension = ext
     /\ TaskDef[t].dataset.friendly_name = d.friendly_name}

\* C21: when load_tasks returns, for every dataset, extension and combination
\* of the module-level concat_tasks with at least two loaded plain Tasks of
\* that dataset and extension named in the combination, the list returned
\* holds a ConcatTask of these Tasks.
C21_ConcatTaskPerCombination ==
  lt.pc = "returned" =>
    \A d \in Range(datasets_list) : \A ext \in d.extensions :
      \A c \in Range(concat_tasks) :
        Cardinality(LoadedOfCombination(d, ext, c)) >= 2 =>
          \E i \in 1..Len(lt.concat) :
            Range(lt.concat[i]) = LoadedOfCombination(d, ext, c)

\* C22: when load_tasks returns with a dataset that has nsplits, every label
\* in the label vector y of every Task occurs more than nsplits times in y.
C22_ClassSizeSurvivesIntersection ==
  (lt.pc = "returned" /\ nsplits # <<>>) =>
    \A t \in DOMAIN task : \A i \in 1..Len(task[t].y) :
      y_freq(task[t].y, task[t].y[i].label) > nsplits[1]
====
